---- MODULE Spec2Model ----
(***************************************************************************)
(* A model of @mastrojs/markdown: the frontmatter splitter                 *)
(* (parseYamlFrontmatter), the folder path resolver                        *)
(* (readMarkdownFileInFolder, serveMarkdownFolder.GET), static path        *)
(* enumeration (serveMarkdownFolder.getStaticPaths) and the batch reader   *)
(* (readMarkdownFiles).                                                    *)
(*                                                                         *)
(* Strings are sequences of one-character strings, so that the regular     *)
(* expression and the slice arithmetic of the source act on characters.    *)
(***************************************************************************)
EXTENDS Integers, Sequences, FiniteSets, TLC

VARIABLES
  \* ---- parseYamlFrontmatter
  md,          \* the input text
  nPieces,     \* how many pieces the input text was assembled from
  fmPc,        \* "input" | "done"
  loaded,      \* what jsYaml.load returned or threw; NotCalled when not invoked
  fmResult,    \* the returned {body, meta}
  \* ---- the file system and the folder being served
  folder,      \* the root folder
  fs,          \* file path -> "absent" | "ok" | "denied"
  \* ---- one request of the path resolver
  reqFn,       \* "none" | "readMarkdownFileInFolder" | "GET"
  reqPath,     \* the URL path of the request
  reqPc,       \* "idle" | "read1" | "read2" | "convert" | "render" | "done"
  reads,       \* the readTextFile calls made so far: <<[file, result]>>
  txt,         \* the text read
  nConvert,    \* number of mdToHtml calls
  nRender,     \* number of renderFn calls
  outcome,     \* "none" | "ok" | "NotFound" | "ENOENT" | "EACCES"
  \* ---- getStaticPaths
  spPc,        \* "idle" | "done"
  foundFiles,  \* what findFiles returned
  staticPaths, \* what getStaticPaths returned
  \* ---- readMarkdownFiles
  rmPaths,     \* what findFiles returned to readMarkdownFiles
  taskPc,      \* per index: "read" | "convert" | "done" | "failed"
  taskFile,    \* per index: the text read
  taskMd,      \* per index: the converted document
  completed,   \* the indices in the order their tasks completed
  rmPc,        \* "idle" | "running" | "resolved" | "rejected"
  rmResult     \* the array readMarkdownFiles resolves to

fmVars == <<md, nPieces, fmPc, loaded, fmResult>>
fsVars == <<folder, fs>>
reqVars == <<reqFn, reqPath, reqPc, reads, txt, nConvert, nRender, outcome>>
spVars == <<spPc, foundFiles, staticPaths>>
rmVars == <<rmPaths, taskPc, taskFile, taskMd, completed, rmPc, rmResult>>
vars == <<fmVars, fsVars, reqVars, spVars, rmVars>>

----------------------------------------------------------------------------
(* Bounds *)

\* The input text of parseYamlFrontmatter is assembled from at most this many pieces.
MaxPieces == 4

\* At most this many markdown files exist in the served folder at once.
MaxFiles == 2

----------------------------------------------------------------------------
(* JavaScript string operations *)

Min(S) == CHOOSE x \in S : \A y \in S : x <= y

\* String.prototype.startsWith
StartsWith(s, p) == Len(s) >= Len(p) /\ SubSeq(s, 1, Len(p)) = p

\* String.prototype.endsWith
EndsWith(s, p) == Len(s) >= Len(p) /\ SubSeq(s, Len(s) - Len(p) + 1, Len(s)) = p

\* String.prototype.slice(start, end) with start >= 0 and end <= 0 counted
\* from the end of the string (end = 0 stands for "to the end").
Slice(s, start, end) ==
  LET from == IF start > Len(s) THEN Len(s) ELSE start
      to   == IF Len(s) + end < 0 THEN 0 ELSE Len(s) + end
  IN  IF to <= from THEN << >> ELSE SubSeq(s, from + 1, to)

----------------------------------------------------------------------------
(* Characters and texts *)

Dash3 == <<"-", "-", "-">>
LineBreaks == {"\n", "\r"}
Letters == {"a", "e", "g", "h", "i", "l", "o", "r", "t", "x"}

TitleGo == <<"t", "i", "t", "l", "e", ":", " ", "g", "o">>
HiThere == <<"h", "i", " ", "*", "t", "h", "e", "r", "e", "*">>

\* The pieces input texts are assembled from.
Pieces ==
  { Dash3 \o <<"\n">>,          \* an opening delimiter line
    <<"\n">> \o Dash3,          \* a closing delimiter
    <<"-">>, <<"x">>, <<"\r">>,
    TitleGo,                     \* a YAML mapping
    <<"~">>,                     \* YAML null
    <<"-", " ", "a">>,           \* a YAML sequence
    <<"[">>,                     \* malformed YAML
    <<"\n">> \o HiThere }        \* a markdown body

----------------------------------------------------------------------------
(* JavaScript values *)

JsUndefined == [kind |-> "undefined"]
JsNull == [kind |-> "null"]
JsString(s) == [kind |-> "string", str |-> s]
JsArray(items) == [kind |-> "array", items |-> items]
JsObject(m) == [kind |-> "object", map |-> m]
EmptyObject == JsObject(<< >>)
\* A thrown exception, as the outcome of a call.
Thrown == [kind |-> "throw"]

\* typeof v === "object"
TypeofObject(v) == v.kind \in {"object", "array", "null"}

\* v instanceof Array
InstanceofArray(v) == v.kind = "array"

\* A capture group of a regular expression match: undefined when the group
\* did not take part in the match.
Capture(s) == [defined |-> TRUE, str |-> s]
NoCapture == [defined |-> FALSE, str |-> << >>]

\* Truthiness of a capture: defined and not the empty string.
Truthy(c) == c.defined /\ c.str # << >>

\* c || ""
OrEmpty(c) == IF Truthy(c) THEN c.str ELSE << >>

----------------------------------------------------------------------------
\* yamlFrontRe = /^(-{3}(?:\n|\r)([\w\W]+?)(?:\n|\r)-{3})?([\w\W]*)*/

\* Mutant: the opening -{3} need not be followed by a line break.
OpensBlockAnyChar(s) == Len(s) >= 4 /\ SubSeq(s, 1, 3) = Dash3

\* ^-{3}(?:\n|\r) : three hyphens at the very start, then a line break.
OpensBlock(s) ==
  /\ Len(s) >= 4
  /\ SubSeq(s, 1, 3) = Dash3
  /\ s[4] \in LineBreaks

\* The positions i where (?:\n|\r)-{3} can close the block: s[i] is a line
\* break followed by three hyphens, and the payload s[5..i-1] has at least
\* one character ([\w\W]+?). Nothing is required of what follows.
Closings(s) ==
  { i \in 6..(Len(s) - 3) :
      /\ s[i] \in LineBreaks
      /\ SubSeq(s, i + 1, i + 3) = Dash3 }

\* yamlFrontRe.exec(s): always matches. Group 1 is optional; its payload is
\* non-greedy, so the first closing position is taken. Group 3 is the rest,
\* undefined when the rest is empty (an empty iteration of (...)* is dropped).
YamlFrontReExec(s) ==
  IF OpensBlock(s) /\ Closings(s) # {}
  THEN LET i == Min(Closings(s))
       IN  [g1 |-> Capture(SubSeq(s, 1, i + 3)),
            g2 |-> Capture(SubSeq(s, 5, i - 1)),
            g3 |-> IF i + 3 < Len(s)
                   THEN Capture(SubSeq(s, i + 4, Len(s)))
                   ELSE NoCapture]
  ELSE [g1 |-> NoCapture,
        g2 |-> NoCapture,
        g3 |-> IF s # << >> THEN Capture(s) ELSE NoCapture]

----------------------------------------------------------------------------
(* jsYaml.load(yaml, {schema: JSON_SCHEMA}): the YAML loader is a library. *)
(* It is modelled on the one-line documents below (blank lines around the  *)
(* line are ignored); texts whose payload is any other document are not    *)
(* split.                                                                  *)

RECURSIVE TrimLeft(_)
TrimLeft(s) ==
  IF s # << >> /\ s[1] \in LineBreaks THEN TrimLeft(Tail(s)) ELSE s

RECURSIVE TrimRight(_)
TrimRight(s) ==
  IF s # << >> /\ s[Len(s)] \in LineBreaks
  THEN TrimRight(SubSeq(s, 1, Len(s) - 1))
  ELSE s

TrimBreaks(s) == TrimRight(TrimLeft(s))

\* A plain scalar that the JSON schema resolves to a string: it starts with
\* a letter and goes on with letters, and with spaces, * and - inside.
PlainScalar(s) ==
  /\ s # << >>
  /\ s[1] \in Letters
  /\ s[Len(s)] # " "
  /\ \A i \in 1..Len(s) : s[i] \in Letters \cup {" ", "*", "-"}

\* A mapping key: letters only.
PlainKey(s) == s # << >> /\ \A i \in 1..Len(s) : s[i] \in Letters

\* The position of the ": " that ends the key of a one-line mapping.
KeyEnds(s) ==
  { i \in 2..(Len(s) - 2) :
      /\ s[i] = ":" /\ s[i + 1] = " "
      /\ PlainKey(SubSeq(s, 1, i - 1))
      /\ PlainScalar(SubSeq(s, i + 2, Len(s))) }

\* The documents the loader is modelled on.
KnownYaml(yaml) ==
  LET doc == TrimBreaks(yaml)
  IN  \/ doc \in {<< >>, <<"~">>, <<"[">>, <<"-">>}
      \/ PlainScalar(doc)
      \/ Len(doc) > 2 /\ SubSeq(doc, 1, 2) = <<"-", " ">>
           /\ PlainScalar(SubSeq(doc, 3, Len(doc)))
      \/ KeyEnds(doc) # {}

\* The value jsYaml.load returns for a known document, or Thrown.
JsYamlLoad(yaml) ==
  LET doc == TrimBreaks(yaml)
  IN  IF doc = << >> THEN JsUndefined                   \* no document
      ELSE IF doc = <<"~">> THEN JsNull                 \* the null scalar
      ELSE IF doc = <<"[">> THEN Thrown                 \* unclosed flow sequence
      ELSE IF doc = <<"-">> THEN JsArray(<<JsNull>>)    \* a sequence of one empty entry
      ELSE IF PlainScalar(doc) THEN JsString(doc)
      ELSE IF SubSeq(doc, 1, 2) = <<"-", " ">>
        THEN JsArray(<<JsString(SubSeq(doc, 3, Len(doc)))>>)
      ELSE LET i == Min(KeyEnds(doc))
           IN  JsObject(SubSeq(doc, 1, i - 1) :> JsString(SubSeq(doc, i + 2, Len(doc))))

----------------------------------------------------------------------------
(* parseYamlFrontmatter *)

NotCalled == [called |-> FALSE, arg |-> << >>, val |-> JsUndefined]
Called(yaml, v) == [called |-> TRUE, arg |-> yaml, val |-> v]
NoResult == [body |-> << >>, meta |-> [kind |-> "none"]]

\* typeof metaObj === "object" && !(metaObj instanceof Array); a throw of
\* jsYaml.load skips the test.
Commits(metaObj) ==
  /\ metaObj # Thrown
  /\ TypeofObject(metaObj)
  /\ ~InstanceofArray(metaObj)

\* Mutant: the line break after the closing delimiter is stripped.
CommittedBodyStripped(results) ==
  LET b == OrEmpty(results.g3)
  IN  IF b # << >> /\ b[1] \in LineBreaks THEN Tail(b) ELSE b

\* body = results?.[3] || ""
CommittedBody(results) == OrEmpty(results.g3)

\* The {body, meta} returned once jsYaml.load has returned or thrown metaObj.
FrontmatterResult(s, results, metaObj) ==
  IF Commits(metaObj)
  THEN [body |-> CommittedBody(results), meta |-> metaObj]
  ELSE [body |-> s, meta |-> EmptyObject]

FmInit ==
  /\ md = << >>
  /\ nPieces = 0
  /\ fmPc = "input"
  /\ loaded = NotCalled
  /\ fmResult = NoResult

\* The caller assembles the text to convert.
AppendPiece ==
  /\ fmPc = "input"
  /\ nPieces < MaxPieces
  /\ \E p \in Pieces : md' = md \o p
  /\ nPieces' = nPieces + 1
  /\ UNCHANGED <<fmPc, loaded, fmResult>>

ParseYamlFrontmatter ==
  /\ fmPc = "input"
  /\ LET results == YamlFrontReExec(md)
         yaml == results.g2
     IN  IF Truthy(yaml)
         THEN /\ KnownYaml(yaml.str)
              /\ loaded' = Called(yaml.str, JsYamlLoad(yaml.str))
              /\ fmResult' = FrontmatterResult(md, results, JsYamlLoad(yaml.str))
         ELSE /\ loaded' = NotCalled
              /\ fmResult' = [body |-> md, meta |-> EmptyObject]
  /\ fmPc' = "done"
  /\ UNCHANGED <<md, nPieces>>

----------------------------------------------------------------------------
(* The file system: readTextFile and findFiles are library calls.          *)

Slash == <<"/">>
MdExt == <<".", "m", "d">>
IndexMd == <<"/", "i", "n", "d", "e", "x", ".", "m", "d">>
Data == <<"d", "a", "t", "a">>

Roots == {Data, <<"w">>}

\* The markdown files that may exist below a root, as paths relative to it:
\* /a.md, /index.md, /a/a.md, /a/index.md, /index/index.md, /a/a/index.md
RelFiles ==
  { <<"/", "a">> \o MdExt,
    IndexMd,
    <<"/", "a", "/", "a">> \o MdExt,
    <<"/", "a">> \o IndexMd,
    <<"/", "i", "n", "d", "e", "x">> \o IndexMd,
    <<"/", "a", "/", "a">> \o IndexMd }

FilesOf(root) == {root \o r : r \in RelFiles}

\* The files that exist (readable or not).
Existing == {f \in DOMAIN fs : fs[f] # "absent"}

\* Path resolution of the operating system: repeated slashes count as one.
RECURSIVE Normalize(_)
Normalize(path) ==
  IF Len(path) < 2 THEN path
  ELSE IF path[1] = "/" /\ path[2] = "/" THEN Normalize(Tail(path))
  ELSE <<path[1]>> \o Normalize(Tail(path))

\* The contents of file f.
TextOf(f) == [textOf |-> f]

\* readTextFile(path): the text, or the error it throws. ENOENT is the
\* file-not-found error code; EACCES stands for every other failure.
ReadTextFile(path) ==
  LET f == Normalize(path)
  IN  IF f \notin DOMAIN fs \/ fs[f] = "absent"
      THEN [file |-> path, result |-> "ENOENT", text |-> TextOf(<< >>)]
      ELSE IF fs[f] = "denied"
      THEN [file |-> path, result |-> "EACCES", text |-> TextOf(<< >>)]
      ELSE [file |-> path, result |-> "ok", text |-> TextOf(f)]

\* The orders in which findFiles may list the files of set S.
Orderings(S) ==
  { q \in [1..Cardinality(S) -> S] : \A i, j \in DOMAIN q : q[i] = q[j] => i = j }

\* mdToHtml(text): the conversion, by default markdownToHtml.
MdToHtml(t) == [htmlOf |-> t]

FsInit ==
  /\ folder \in Roots
  /\ fs \in [FilesOf(folder) -> {"absent", "ok", "denied"}]
  /\ Cardinality(Existing) <= MaxFiles

----------------------------------------------------------------------------
(* readMarkdownFileInFolder and serveMarkdownFolder's GET *)

\* The URL paths requested.
UrlPaths ==
  { << >>, Slash, <<"/", "a">>, <<"/", "a", "/">>, <<"a", "/">>,
    <<"/", "i", "n", "d", "e", "x", "/">>,
    <<"/", "a", "/", "a", "/">>,
    <<"/", "a", "/", "i", "n", "d", "e", "x", "/">>,
    <<"/", "i", "n", "d", "e", "x", "/", "i", "n", "d", "e", "x", "/">>,
    <<"/", "i", "n", "d", "e", "x", ".", "m", "d">> }

\* Mutant: the check is skipped for paths below the root.
HasTrailingSlashOrNested(path) == EndsWith(path, Slash) \/ Len(path) > 1

\* path.endsWith("/")
HasTrailingSlash(path) == EndsWith(path, Slash)

\* Mutant: the root URL is mapped to /index.
ResolvedPathRootIndex(path) ==
  LET p == Slice(path, 0, -1)
  IN  IF p = << >> THEN <<"/", "i", "n", "d", "e", "x">>
      ELSE IF StartsWith(p, Slash) THEN p ELSE Slash \o p

\* path = path.slice(0, -1); path = path.startsWith("/") ? path : "/" + path
ResolvedPath(path) ==
  LET p == Slice(path, 0, -1)
  IN  IF StartsWith(p, Slash) THEN p ELSE Slash \o p

\* folder + path + ".md"
FirstFile(root, path) == root \o ResolvedPath(path) \o MdExt

\* folder + path + "/index.md"
SecondFile(root, path) == root \o ResolvedPath(path) \o IndexMd

\* Mutant: every failure of the first read falls back to index.md.
FallsBackOnAnyError(r) == r.result # "ok"

\* e instanceof Error && "code" in e && e.code === "ENOENT"
FallsBack(r) == r.result = "ENOENT"

ReqInit ==
  /\ reqFn = "none"
  /\ reqPath = << >>
  /\ reqPc = "idle"
  /\ reads = << >>
  /\ txt = TextOf(<< >>)
  /\ nConvert = 0
  /\ nRender = 0
  /\ outcome = "none"

\* The call: the trailing-slash check runs before the first await.
StartRequest ==
  /\ reqPc = "idle"
  /\ \E fn \in {"readMarkdownFileInFolder", "GET"}, path \in UrlPaths :
       /\ fn = "GET" => StartsWith(path, Slash)   \* the pathname of a URL
       /\ reqFn' = fn
       /\ reqPath' = path
       /\ IF HasTrailingSlash(path)
          THEN reqPc' = "read1" /\ outcome' = outcome
          ELSE reqPc' = "done" /\ outcome' = "NotFound"
  /\ UNCHANGED <<reads, txt, nConvert, nRender>>

\* txt = await readTextFile(folder + path + ".md"), and its catch clause.
ReadFirst ==
  /\ reqPc = "read1"
  /\ LET r == ReadTextFile(FirstFile(folder, reqPath))
     IN  /\ reads' = Append(reads, [file |-> r.file, result |-> r.result])
         /\ IF r.result = "ok"
            THEN txt' = r.text /\ reqPc' = "convert" /\ outcome' = outcome
            ELSE IF FallsBack(r)
            THEN txt' = txt /\ reqPc' = "read2" /\ outcome' = outcome
            ELSE txt' = txt /\ reqPc' = "done" /\ outcome' = r.result
  /\ UNCHANGED <<reqFn, reqPath, nConvert, nRender>>

\* txt = await readTextFile(folder + path + "/index.md")
ReadSecond ==
  /\ reqPc = "read2"
  /\ LET r == ReadTextFile(SecondFile(folder, reqPath))
     IN  /\ reads' = Append(reads, [file |-> r.file, result |-> r.result])
         /\ IF r.result = "ok"
            THEN txt' = r.text /\ reqPc' = "convert" /\ outcome' = outcome
            ELSE txt' = txt /\ reqPc' = "done" /\ outcome' = r.result
  /\ UNCHANGED <<reqFn, reqPath, nConvert, nRender>>

\* mdToHtml(txt): readMarkdownFileInFolder returns it, GET awaits it.
Convert ==
  /\ reqPc = "convert"
  /\ nConvert' = nConvert + 1
  /\ IF reqFn = "GET"
     THEN reqPc' = "render" /\ outcome' = outcome
     ELSE reqPc' = "done" /\ outcome' = "ok"
  /\ UNCHANGED <<reqFn, reqPath, reads, txt, nRender>>

\* return renderFn(converted, req)
Render ==
  /\ reqPc = "render"
  /\ nRender' = nRender + 1
  /\ reqPc' = "done"
  /\ outcome' = "ok"
  /\ UNCHANGED <<reqFn, reqPath, reads, txt, nConvert>>

----------------------------------------------------------------------------
(* serveMarkdownFolder's getStaticPaths *)

\* Mutant: the slash before index.md is cut off too.
DeriveStaticPathNoSlash(l, file) ==
  IF EndsWith(file, IndexMd) THEN Slice(file, l, -9) ELSE Slice(file, l, -3) \o Slash

\* file.endsWith("/index.md") ? file.slice(l, -8) : file.slice(l, -3) + "/"
DeriveStaticPath(l, file) ==
  IF EndsWith(file, IndexMd) THEN Slice(file, l, -8) ELSE Slice(file, l, -3) \o Slash

SpInit ==
  /\ spPc = "idle"
  /\ foundFiles = << >>
  /\ staticPaths = << >>

\* files = await findFiles(folder + "/**/*.md"); files.map(...)
GetStaticPaths ==
  /\ spPc = "idle"
  /\ \E files \in Orderings(Existing) :
       /\ foundFiles' = files
       /\ staticPaths' = [i \in DOMAIN files |-> DeriveStaticPath(Len(folder), files[i])]
  /\ spPc' = "done"

----------------------------------------------------------------------------
(* readMarkdownFiles *)

\* Mutant: the results are collected in the order the tasks complete.
PromiseAllByCompletion(values, order) == [i \in DOMAIN values |-> values[order[i]]]

\* Promise.all(tasks): the values of the tasks by the index of the task,
\* whatever the order in which they completed.
PromiseAll(values, order) == [i \in DOMAIN values |-> values[i]]

\* return { path: paths[i], ...md }
TaskValue(paths, i, m) == [path |-> paths[i], md |-> m]

RmInit ==
  /\ rmPaths = << >>
  /\ taskPc = << >>
  /\ taskFile = << >>
  /\ taskMd = << >>
  /\ completed = << >>
  /\ rmPc = "idle"
  /\ rmResult = << >>

\* paths = await findFiles(pattern); paths.map(async ...) starts every task.
StartReadMarkdownFiles ==
  /\ rmPc = "idle"
  /\ \E S \in SUBSET Existing : \E paths \in Orderings(S) :
       /\ rmPaths' = paths
       /\ taskPc' = [i \in DOMAIN paths |-> "read"]
       /\ taskFile' = [i \in DOMAIN paths |-> TextOf(<< >>)]
       /\ taskMd' = [i \in DOMAIN paths |-> MdToHtml(TextOf(<< >>))]
  /\ rmPc' = "running"
  /\ UNCHANGED <<completed, rmResult>>

\* file = await readTextFile(path); a failure rejects the task, and the
\* first rejected task rejects Promise.all.
TaskRead ==
  /\ \E i \in DOMAIN taskPc :
       /\ taskPc[i] = "read"
       /\ LET r == ReadTextFile(rmPaths[i])
          IN  IF r.result = "ok"
              THEN /\ taskFile' = [taskFile EXCEPT ![i] = r.text]
                   /\ taskPc' = [taskPc EXCEPT ![i] = "convert"]
                   /\ rmPc' = rmPc
              ELSE /\ taskFile' = taskFile
                   /\ taskPc' = [taskPc EXCEPT ![i] = "failed"]
                   /\ rmPc' = IF rmPc = "running" THEN "rejected" ELSE rmPc
  /\ UNCHANGED <<rmPaths, taskMd, completed, rmResult>>

\* md = await mdToHtml(file); return { path: paths[i], ...md }
TaskConvert ==
  /\ \E i \in DOMAIN taskPc :
       /\ taskPc[i] = "convert"
       /\ taskMd' = [taskMd EXCEPT ![i] = MdToHtml(taskFile[i])]
       /\ taskPc' = [taskPc EXCEPT ![i] = "done"]
       /\ completed' = Append(completed, i)
  /\ UNCHANGED <<rmPaths, taskFile, rmPc, rmResult>>

\* Promise.all resolves once every task has.
ResolveAll ==
  /\ rmPc = "running"
  /\ \A i \in DOMAIN taskPc : taskPc[i] = "done"
  /\ rmResult' = PromiseAll([i \in DOMAIN rmPaths |-> TaskValue(rmPaths, i, taskMd[i])],
                            completed)
  /\ rmPc' = "resolved"
  /\ UNCHANGED <<rmPaths, taskPc, taskFile, taskMd, completed>>

----------------------------------------------------------------------------
(* Specifications *)

FsIdle == folder = Data /\ fs = [f \in FilesOf(Data) |-> "absent"]

\* The frontmatter splitter on assembled texts.
InitFm == FmInit /\ FsIdle /\ ReqInit /\ SpInit /\ RmInit

NextFm ==
  \/ AppendPiece /\ UNCHANGED <<fsVars, reqVars, spVars, rmVars>>
  \/ ParseYamlFrontmatter /\ UNCHANGED <<fsVars, reqVars, spVars, rmVars>>

SpecFm == InitFm /\ [][NextFm]_vars

\* A served folder: one request and one enumeration over a file system.
InitFolder == FmInit /\ FsInit /\ ReqInit /\ SpInit /\ RmInit

NextFolder ==
  \/ StartRequest /\ UNCHANGED <<fmVars, fsVars, spVars, rmVars>>
  \/ ReadFirst /\ UNCHANGED <<fmVars, fsVars, spVars, rmVars>>
  \/ ReadSecond /\ UNCHANGED <<fmVars, fsVars, spVars, rmVars>>
  \/ Convert /\ UNCHANGED <<fmVars, fsVars, spVars, rmVars>>
  \/ Render /\ UNCHANGED <<fmVars, fsVars, spVars, rmVars>>
  \/ GetStaticPaths /\ UNCHANGED <<fmVars, fsVars, reqVars, rmVars>>

SpecFolder == InitFolder /\ [][NextFolder]_vars

\* The batch reader over a file system.
InitFiles == FmInit /\ FsInit /\ ReqInit /\ SpInit /\ RmInit

NextFiles ==
  \/ StartReadMarkdownFiles /\ UNCHANGED <<fmVars, fsVars, reqVars, spVars>>
  \/ TaskRead /\ UNCHANGED <<fmVars, fsVars, reqVars, spVars>>
  \/ TaskConvert /\ UNCHANGED <<fmVars, fsVars, reqVars, spVars>>
  \/ ResolveAll /\ UNCHANGED <<fmVars, fsVars, reqVars, spVars>>

SpecFiles == InitFiles /\ [][NextFiles]_vars

----------------------------------------------------------------------------
(* Properties of parseYamlFrontmatter, checked under SpecFm *)

\* s begins with an opening --- line, a payload of n >= 1 characters, a line
\* break and a closing ---.
BeginsWithBlock(s) ==
  \E n \in 1..Len(s) :
    /\ Len(s) >= n + 8
    /\ SubSeq(s, 1, 3) = Dash3
    /\ s[4] \in LineBreaks
    /\ s[n + 5] \in LineBreaks
    /\ SubSeq(s, n + 6, n + 8) = Dash3

\* As BeginsWithBlock, with the closing --- alone on its line: followed by a
\* line break or by the end of the text.
BeginsWithExactBlock(s) ==
  \E n \in 1..Len(s) :
    /\ Len(s) >= n + 8
    /\ SubSeq(s, 1, 3) = Dash3
    /\ s[4] \in LineBreaks
    /\ s[n + 5] \in LineBreaks
    /\ SubSeq(s, n + 6, n + 8) = Dash3
    /\ (Len(s) = n + 8 \/ s[n + 9] \in LineBreaks)

\* The text after the block whose payload is yaml: after ---, a line break,
\* the payload, a line break and ---.
AfterBlock(s, yaml) == SubSeq(s, Len(yaml) + 9, Len(s))

StripLeadingBreak(s) == IF s # << >> /\ s[1] \in LineBreaks THEN Tail(s) ELSE s

\* "---\ntitle: go\n---\nhi *there*"
ExampleDocument == Dash3 \o <<"\n">> \o TitleGo \o <<"\n">> \o Dash3 \o <<"\n">> \o HiThere

\* {title: "go"}
TitleGoMeta == JsObject(<<"t", "i", "t", "l", "e">> :> JsString(<<"g", "o">>))

\* C1: a text that does not begin with a ----delimited block is returned
\* unchanged as the body, with meta {}, and the YAML loader is not called.
C1_NoBlockUnchanged ==
  (fmPc = "done" /\ ~BeginsWithBlock(md))
    => /\ fmResult = [body |-> md, meta |-> EmptyObject]
       /\ ~loaded.called

\* C1 witness: an opening delimiter and a payload with no closing delimiter.
C1_Witness ==
  /\ fmPc = "done"
  /\ md = Dash3 \o <<"\n">> \o TitleGo \o <<"\n">> \o HiThere
  /\ ~BeginsWithBlock(md)

\* C2 as stated: when the payload parses to a mapping, meta is that mapping
\* and body is the text after the closing --- with the line break after the
\* delimiter stripped; the example gives {title: "go"} and "hi *there*".
C2_BodyBreakStripped ==
  (fmPc = "done" /\ loaded.called /\ loaded.val.kind = "object")
    => /\ fmResult.meta = loaded.val
       /\ fmResult.body = StripLeadingBreak(AfterBlock(md, loaded.arg))
       /\ md = ExampleDocument
            => fmResult = [body |-> HiThere, meta |-> TitleGoMeta]

\* C2 amended: when the payload parses to a mapping, meta is that mapping and
\* body is the whole text after the closing ---, the line break after the
\* delimiter included; the example gives {title: "go"} and "\nhi *there*".
C2_BodyIsRest ==
  (fmPc = "done" /\ loaded.called /\ loaded.val.kind = "object")
    => /\ fmResult.meta = loaded.val
       /\ fmResult.body = AfterBlock(md, loaded.arg)
       /\ md = ExampleDocument
            => fmResult = [body |-> <<"\n">> \o HiThere, meta |-> TitleGoMeta]

\* C2 witness: the example document has been split.
C2_Witness ==
  /\ fmPc = "done"
  /\ md = ExampleDocument
  /\ loaded.called
  /\ loaded.val.kind = "object"

\* C3: with a delimited block present, the parsed pair is used only if the
\* loader returned a mapping; after a throw, a scalar, null, an empty
\* document or an array the result is the whole text with meta {}; the
\* returned meta is always a mapping.
C3_CommitOnlyOnMapping ==
  fmPc = "done"
    => /\ fmResult.meta.kind = "object"
       /\ loaded.called
            => IF loaded.val.kind = "object"
               THEN fmResult = [body |-> AfterBlock(md, loaded.arg), meta |-> loaded.val]
               ELSE fmResult = [body |-> md, meta |-> EmptyObject]

\* C9: a text whose opening or closing delimiter line carries anything
\* besides --- is returned unchanged as the body, with meta {}.
C9_ExactDelimiters ==
  (fmPc = "done" /\ ~BeginsWithExactBlock(md))
    => fmResult = [body |-> md, meta |-> EmptyObject]

----------------------------------------------------------------------------
(* Properties of the path resolver and of getStaticPaths, under SpecFolder *)

\* What the file system answers for a file.
StatusOf(file) ==
  LET f == Normalize(file)
  IN  IF f \notin DOMAIN fs \/ fs[f] = "absent" THEN "ENOENT"
      ELSE IF fs[f] = "denied" THEN "EACCES"
      ELSE "ok"

\* The URL path without its trailing slash and with a leading slash.
Stem(path) ==
  LET p == SubSeq(path, 1, Len(path) - 1)
  IN  IF p # << >> /\ p[1] = "/" THEN p ELSE Slash \o p

\* C4: a path that does not end with / fails with NotFound, and no file
\* read, conversion or render callback happens before or after.
C4_NoSlashNotFound ==
  (reqFn # "none" /\ ~EndsWith(reqPath, Slash))
    => /\ reqPc = "done"
       /\ outcome = "NotFound"
       /\ reads = << >>
       /\ nConvert = 0
       /\ nRender = 0

\* C4 witness: GET /a has been refused.
C4_Witness ==
  /\ reqFn = "GET"
  /\ reqPath = <<"/", "a">>
  /\ reqPc = "done"
  /\ outcome = "NotFound"

\* C5: for a trailing-slash path the first read is <root><path>.md; the
\* second, <root><path>/index.md, happens if and only if the first failed
\* with ENOENT; any other failure of the first read, and any failure of the
\* second, is the failure of the request; at most two reads, in this order.
C5_ReadOrder ==
  (reqFn # "none" /\ EndsWith(reqPath, Slash))
    => LET first == folder \o Stem(reqPath) \o MdExt
           second == folder \o Stem(reqPath) \o IndexMd
       IN  /\ Len(reads) <= 2
           /\ Len(reads) >= 1
                => reads[1] = [file |-> first, result |-> StatusOf(first)]
           /\ Len(reads) = 2
                => /\ reads[1].result = "ENOENT"
                   /\ reads[2] = [file |-> second, result |-> StatusOf(second)]
           /\ reqPc = "read1" <=> reads = << >>
           /\ reqPc = "read2" => (Len(reads) = 1 /\ reads[1].result = "ENOENT")
           /\ reqPc \in {"convert", "render", "done"}
                => /\ Len(reads) = (IF StatusOf(first) = "ENOENT" THEN 2 ELSE 1)
                   /\ reads[Len(reads)].result # "ok" => reqPc = "done"
           /\ reqPc = "done" => outcome = reads[Len(reads)].result

\* C5 witness: permission denied on the first read ended the request.
C5_Witness ==
  /\ reqPc = "done"
  /\ EndsWith(reqPath, Slash)
  /\ Len(reads) = 1
  /\ reads[1].result = "EACCES"
  /\ outcome = "EACCES"
  /\ StatusOf(folder \o Stem(reqPath) \o IndexMd) = "ok"

DataDotMd == Data \o <<"/", ".", "m", "d">>
DataSlashIndexMd == Data \o Slash \o IndexMd

C8_StaticPathsInverse ==
  spPc = "done"
    => /\ Len(staticPaths) = Len(foundFiles)
       /\ \A i \in DOMAIN foundFiles :
            LET f == foundFiles[i]
                sp == staticPaths[i]
                stems == {SubSeq(f, Len(folder) + 1, k) : k \in Len(folder)..Len(f)}
            IN  /\ EndsWith(sp, Slash)
                /\ \E p \in stems :
                     /\ sp = p \o Slash
                     /\ IF EndsWith(f, IndexMd)
                        THEN f = folder \o p \o IndexMd
                        ELSE f = folder \o p \o MdExt
                /\ f = folder \o IndexMd => sp = Slash
                /\ f \in {folder \o <<"/", "a">> \o IndexMd, folder \o <<"/", "a">> \o MdExt}
                     => sp = <<"/", "a", "/">>
                /\ f \in {folder \o <<"/", "a", "/", "a">> \o IndexMd,
                          folder \o <<"/", "a", "/", "a">> \o MdExt}
                     => sp = <<"/", "a", "/", "a", "/">>

\* C8 witness: <root>/a/a.md and <root>/a/a/index.md were both listed.
C8_Witness ==
  /\ spPc = "done"
  /\ Len(foundFiles) = 2
  /\ {foundFiles[1], foundFiles[2]}
       = {folder \o <<"/", "a", "/", "a">> \o IndexMd,
          folder \o <<"/", "a", "/", "a">> \o MdExt}
  /\ staticPaths = << <<"/", "a", "/", "a", "/">>, <<"/", "a", "/", "a", "/">> >>

\* C10: a GET of a path p that getStaticPaths lists never fails with
\* NotFound or file-not-found, and the text it serves is that of an existing
\* markdown file whose listed path is p.
C10_EnumerateThenServe ==
  (spPc = "done" /\ reqFn = "GET" /\ reqPc = "done"
     /\ \E i \in DOMAIN staticPaths : staticPaths[i] = reqPath)
    => /\ outcome \notin {"NotFound", "ENOENT"}
       /\ outcome = "ok"
            => \E f \in Existing :
                 /\ txt = TextOf(f)
                 /\ DeriveStaticPath(Len(folder), f) = reqPath

----------------------------------------------------------------------------
(* Properties of readMarkdownFiles, under SpecFiles *)

\* C7: the i-th result carries the i-th path found together with the
\* conversion of that file's contents, whatever the completion order.
C7_ResultsInPathOrder ==
  rmPc = "resolved"
    => /\ Len(rmResult) = Len(rmPaths)
       /\ \A i \in DOMAIN rmPaths :
            /\ rmResult[i].path = rmPaths[i]
            /\ rmResult[i].md = [htmlOf |-> [textOf |-> rmPaths[i]]]

\* C7 witness: the second task completed before the first.
C7_Witness ==
  /\ rmPc = "resolved"
  /\ Len(rmPaths) = 2
  /\ completed = <<2, 1>>

====
